---- MODULE Spec2Model ----
(***************************************************************************)
(* A model of openCANopen's traffic dumper (src/src/dump.c): co_dump       *)
(* resolves the filter options, then pulls CAN frames from a socket or a   *)
(* trace file one at a time and hands each to multiplex, which classifies  *)
(* it and calls the decoder of its service.  The SDO decoders keep, per    *)
(* node id 1..127, the multiplexer of the transfer in flight, the bytes    *)
(* of its segments and the device type of the node.                        *)
(***************************************************************************)
EXTENDS Integers, Sequences, FiniteSets, TLC

(***************************************************************************)
(* Option bits (canopen/dump.h), held as bit positions: a value of enum    *)
(* co_dump_options is the set of the positions of its one bits, so that    *)
(* | is \cup, & is \cap and 1 << k is {k}.                                 *)
(***************************************************************************)
CO_DUMP_TCP == 0
CO_DUMP_FILTER_NMT == 1
CO_DUMP_FILTER_SYNC == 2
CO_DUMP_FILTER_TIMESTAMP == 3
CO_DUMP_FILTER_EMCY == 4
CO_DUMP_PDO_FILTER_SHIFT == 5
CO_DUMP_FILTER_SDO == 9
CO_DUMP_FILTER_HEARTBEAT == 10
CO_DUMP_TIMESTAMP == 11
CO_DUMP_FILE == 12

OptionBits == 0..12

CO_DUMP_FILTER_MASK == 1..10

(***************************************************************************)
(* Frames (struct can_frame): can_id holds the 11-bit identifier and the   *)
(* remote-request flag, can_dlc the data length, data the 8 payload bytes  *)
(* (all 8 are storage of the frame, whatever can_dlc says).                *)
(***************************************************************************)
CAN_MAX_DLC == 8

CAN_RTR_FLAG == 1073741824

NodeIdMax == 127

NULL == -1

ZeroData == <<0, 0, 0, 0, 0, 0, 0, 0>>

ZeroFrame == [can_id |-> 0, can_dlc |-> 0, data |-> ZeroData]

MkFrame(fc, id, rtr, dlc, data) ==
    [can_id |-> fc * 128 + id + (IF rtr THEN CAN_RTR_FLAG ELSE 0),
     can_dlc |-> dlc, data |-> data]

IsRtr(f) == (f.can_id \div CAN_RTR_FLAG) % 2 = 1

(***************************************************************************)
(* size_t is 64 bits wide.  A value v is held by its representative in     *)
(* -2^63 .. 2^63-1 (v >= 2^63 is held as v - 2^64), so that a subtraction  *)
(* that wraps below zero yields the negative representative of the huge    *)
(* unsigned value and TLC needs no number beyond its integers.  Order is   *)
(* the unsigned one.                                                       *)
(***************************************************************************)
SizeLess(a, b) == IF (a < 0) = (b < 0) THEN a < b ELSE b < 0

MIN(a, b) == IF SizeLess(a, b) THEN a ELSE b

(***************************************************************************)
(* The classifier (canopen.h): function code from bits 7..10 of the        *)
(* identifier, node id from bits 0..6.                                     *)
(***************************************************************************)
FunctionCode(f) == (f.can_id \div 128) % 16

FrameNodeId(f) == f.can_id % 128

canopen_get_object_type(f) ==
    LET fc == FunctionCode(f)
        id == FrameNodeId(f)
        obj == CASE fc = 0 -> "NMT"
                 [] fc = 1 -> IF id = 0 THEN "SYNC" ELSE "EMCY"
                 [] fc = 2 -> "TIMESTAMP"
                 [] fc = 3 -> "TPDO1"
                 [] fc = 4 -> "RPDO1"
                 [] fc = 5 -> "TPDO2"
                 [] fc = 6 -> "RPDO2"
                 [] fc = 7 -> "TPDO3"
                 [] fc = 8 -> "RPDO3"
                 [] fc = 9 -> "TPDO4"
                 [] fc = 10 -> "RPDO4"
                 [] fc = 11 -> "TSDO"
                 [] fc = 12 -> "RSDO"
                 [] fc = 14 -> "HEARTBEAT"
                 [] OTHER -> "NONE"
    IN  [rc |-> IF obj = "NONE" THEN -1 ELSE 0, object |-> obj, id |-> id]

(***************************************************************************)
(* SDO field access (canopen/sdo.h).                                       *)
(***************************************************************************)
SDO_SEGMENT_IDX == 1

SDO_EXPEDIATED_DATA_IDX == 4

Byte(f, i) == f.data[i + 1]

sdo_get_cs(f) == Byte(f, 0) \div 32

sdo_is_expediated(f) == (Byte(f, 0) \div 2) % 2 = 1

sdo_is_size_indicated(f) == Byte(f, 0) % 2 = 1

sdo_is_end_segment(f) == Byte(f, 0) % 2 = 1

sdo_get_expediated_size(f) == 4 - ((Byte(f, 0) \div 4) % 4)

sdo_get_index(f) == Byte(f, 1) + 256 * Byte(f, 2)

sdo_get_subindex(f) == Byte(f, 3)

sdo_get_indicated_size(f) ==
    Byte(f, 4) + 256 * Byte(f, 5) + 65536 * Byte(f, 6) + 16777216 * Byte(f, 7)

SDO_MUX(index, subindex) == index * 256 + subindex

(***************************************************************************)
(* Collaborators of the decoders: the byte vector (vector.h), the          *)
(* dictionary type of a multiplexer (canopen/sdo-dict.h) and the copy of   *)
(* a little-endian value (byteorder2).                                     *)
(***************************************************************************)
vector_init == <<>>

vector_clear(v) == <<>>

vector_append(v, bytes) == v \o bytes

MuxDeviceType == SDO_MUX(4096, 0)

MuxDeviceName == SDO_MUX(4104, 0)

sdo_dict_type(mux) ==
    IF mux = MuxDeviceName THEN "VISIBLE_STRING"
    ELSE IF mux = MuxDeviceType THEN "UNSIGNED32"
    ELSE "UNKNOWN"

RECURSIVE LittleEndian(_)
LittleEndian(bytes) ==
    IF bytes = <<>> THEN 0 ELSE Head(bytes) + 256 * LittleEndian(Tail(bytes))

byteorder2(payload, dst_size, src_size) ==
    LittleEndian(SubSeq(payload, 1, MIN(dst_size, src_size)))

(***************************************************************************)
(* State.                                                                  *)
(*   pc           where the process is: "idle" outside co_dump, "top" at   *)
(*                the head of the decode loop, "recv" waiting for a frame, *)
(*                "mux" holding a frame not yet decoded, "aborted" after   *)
(*                abort(), "crashed" after a fault                         *)
(*   fault        what a crashed process died of: "null" for an access     *)
(*                through a null state pointer, "size" for a copy or read  *)
(*                of a size that wrapped; "none" otherwise                 *)
(*   req          the options argument of the running co_dump call         *)
(*   options_     the resolved options (file-scope static)                 *)
(*   node_state_  the state table, indexed 0..126 (the entries of the      *)
(*                node ids the model uses)                                 *)
(*   cf           the frame of the loop                                    *)
(*   out          what the iteration has written to stdout: one piece per  *)
(*                printf call                                              *)
(*   xfer         history: per state entry, whether a segmented transfer   *)
(*                announced with its size is in flight, the size it        *)
(*                declared and the payload bytes of its segment frames so  *)
(*                far                                                      *)
(*   hist         history: the recorder of a live run and of its replay    *)
(*                (phase, the frames decoded, what each decoding wrote,    *)
(*                the outcome of the live run); "off" unless a             *)
(*                specification starts it                                  *)
(***************************************************************************)
VARIABLES pc, fault, req, options_, node_state_, cf, out, xfer, hist

vars == <<pc, fault, req, options_, node_state_, cf, out, xfer, hist>>

NodeIds == {0, 1, NodeIdMax}

\* every node id sharing the first entry of the table
get_node_state_first(nodeid) ==
    IF 0 < nodeid /\ nodeid <= 127 THEN 0 ELSE NULL

get_node_state(nodeid) ==
    IF 0 < nodeid /\ nodeid <= 127 THEN nodeid - 1 ELSE NULL

StateIdx == {get_node_state(n) : n \in NodeIds} \ {NULL}

(***************************************************************************)
(* Output.  A piece is one printf call: its format, its numeric arguments, *)
(* the bytes of its %s data argument with the way they were rendered       *)
(* ("hex" by hexdump, "str" by make_string, "garbage" when the read ran    *)
(* off the frame, "none"), whether the remote-request marker was written   *)
(* and whether the call ended the line.                                    *)
(***************************************************************************)
Piece(fmt, args, enc, data, rtr, nl) ==
    [fmt |-> fmt, args |-> args, enc |-> enc, data |-> data, rtr |-> rtr, nl |-> nl]

printf(o, fmt, args, enc, data) ==
    Append(o, Piece(fmt, args, enc, data, FALSE, FALSE))

printx(o, f, fmt, args, enc, data) ==
    Append(o, Piece(fmt, args, enc, data, IsRtr(f), TRUE))

print_ts(o) ==
    IF CO_DUMP_TIMESTAMP \in options_
    THEN printf(o, "%llu.%06llu ", <<>>, "none", <<>>)
    ELSE o

(***************************************************************************)
(* How a decoder ends: it returns to the loop, or the process dies.        *)
(***************************************************************************)
Return(ns, o) ==
    /\ pc' = "top"
    /\ node_state_' = ns
    /\ out' = o
    /\ UNCHANGED fault

Crash(why) ==
    /\ pc' = "crashed"
    /\ fault' = why
    /\ UNCHANGED <<node_state_, out>>

Abort ==
    /\ pc' = "aborted"
    /\ UNCHANGED <<node_state_, out, fault>>

(***************************************************************************)
(* The stateless decoders.                                                 *)
(***************************************************************************)
nmt_cs_str(cs) ==
    CASE cs = 1 -> "start"
      [] cs = 2 -> "stop"
      [] cs = 128 -> "enter-preoperational"
      [] cs = 129 -> "reset-node"
      [] cs = 130 -> "reset-communication"
      [] OTHER -> "unknown"

dump_nmt(f) ==
    IF CO_DUMP_FILTER_NMT \notin options_
    THEN Return(node_state_, out)
    ELSE LET nodeid == Byte(f, 1)
             cs == Byte(f, 0)
         IN  IF nodeid = 0
             THEN Return(node_state_,
                         printx(print_ts(out), f, "NMT ALL %s", <<cs>>,
                                nmt_cs_str(cs), <<>>))
             ELSE Return(node_state_,
                         printx(print_ts(out), f, "NMT %d %s", <<nodeid, cs>>,
                                nmt_cs_str(cs), <<>>))

dump_sync(f) ==
    IF CO_DUMP_FILTER_SYNC \notin options_
    THEN Return(node_state_, out)
    ELSE Return(node_state_, printx(print_ts(out), f, "SYNC", <<>>, "none", <<>>))

dump_timestamp(f) ==
    IF CO_DUMP_FILTER_TIMESTAMP \notin options_
    THEN Return(node_state_, out)
    ELSE Return(node_state_,
                printx(print_ts(out), f, "TIMESTAMP TODO", <<>>, "none", <<>>))

emcy_get_code(f) == Byte(f, 0) + 256 * Byte(f, 1)

emcy_get_register(f) == Byte(f, 2)

dump_emcy(msg, f) ==
    IF CO_DUMP_FILTER_EMCY \notin options_
    THEN Return(node_state_, out)
    ELSE IF f.can_dlc = 0
    THEN Return(node_state_,
                printx(print_ts(out), f, "EMCY %d EMPTY", <<msg.id>>, "none", <<>>))
    ELSE LET state == get_node_state(msg.id)
         IN  IF state = NULL
             THEN Crash("null")  \* state->device_type through a null pointer
             ELSE Return(node_state_,
                         printx(print_ts(out), f, "EMCY %d code,register,dlc,text",
                                <<msg.id, emcy_get_code(f), emcy_get_register(f),
                                  f.can_dlc,
                                  node_state_[state].device_type % 65536>>,
                                "hex", SubSeq(f.data, 4, 8)))

\* the shift applied without the - 1
is_pdo_in_filter_shifted(n) == (n + CO_DUMP_PDO_FILTER_SHIFT) \in options_

is_pdo_in_filter(n) == (n + CO_DUMP_PDO_FILTER_SHIFT - 1) \in options_

dump_pdo(type, n, msg, f) ==
    IF ~is_pdo_in_filter(n)
    THEN Return(node_state_, out)
    ELSE Return(node_state_,
                printx(print_ts(out), f, type \o "PDO%d %d length=%d,data=%s",
                       <<n, msg.id, f.can_dlc>>, "hex", SubSeq(f.data, 1, f.can_dlc)))

NMT_STATE_STOPPED == 4

NMT_STATE_OPERATIONAL == 5

NMT_STATE_PREOPERATIONAL == 127

\* the last known name taken for every other value
state_str_no_default(state) ==
    CASE state = NMT_STATE_STOPPED -> "stopped"
      [] state = NMT_STATE_OPERATIONAL -> "operational"
      [] OTHER -> "pre-operational"

state_str(state) ==
    CASE state = NMT_STATE_STOPPED -> "stopped"
      [] state = NMT_STATE_OPERATIONAL -> "operational"
      [] state = NMT_STATE_PREOPERATIONAL -> "pre-operational"
      [] OTHER -> "UNKNOWN"

heartbeat_get_state(f) == Byte(f, 0) % 128

heartbeat_is_bootup(f) == Byte(f, 0) = 0

dump_heartbeat(msg, f) ==
    IF CO_DUMP_FILTER_HEARTBEAT \notin options_
    THEN Return(node_state_, out)
    ELSE LET state == heartbeat_get_state(f)
         IN  IF heartbeat_is_bootup(f)
             THEN Return(node_state_,
                         printx(print_ts(out), f, "HEARTBEAT %d bootup",
                                <<msg.id>>, "none", <<>>))
             ELSE IF state = 1
             THEN Return(node_state_,
                         printx(print_ts(out), f, "HEARTBEAT %d poll",
                                <<msg.id>>, "none", <<>>))
             ELSE Return(node_state_,
                         printx(print_ts(out), f, "HEARTBEAT %d state=%s",
                                <<msg.id>>, state_str(state), <<>>))

(***************************************************************************)
(* The SDO decoders.  A read of size bytes from offset from of the frame   *)
(* stays in the frame's 8 data bytes when size <= 8 - from; a size that    *)
(* wrapped runs off the frame (and, for vector_append, off the vector):    *)
(* the process faults, or the copy is refused and the text is garbage.     *)
(***************************************************************************)
InFrame(from, size) == ~SizeLess(CAN_MAX_DLC - from, size)

FrameBytes(f, from, size) ==
    IF InFrame(from, size) THEN SubSeq(f.data, from + 1, from + size) ELSE <<>>

get_expediated_size(f) ==
    LET max_size == f.can_dlc - SDO_EXPEDIATED_DATA_IDX
    IN  IF sdo_is_size_indicated(f)
        THEN MIN(sdo_get_expediated_size(f), max_size)
        ELSE max_size

get_segment_data(ns, state, ok) ==
    IF ~ok THEN "garbage"
    ELSE IF state # NULL /\ sdo_dict_type(ns[state].current_mux) = "VISIBLE_STRING"
    THEN "str"
    ELSE "hex"

dump_sdo_dl_init_req(msg, f) ==
    LET state == get_node_state(msg.id)
        is_expediated == sdo_is_expediated(f)
        is_size_indicated == sdo_is_size_indicated(f)
        index == sdo_get_index(f)
        subindex == sdo_get_subindex(f)
        ns1 == IF state # NULL /\ ~is_expediated
               THEN [node_state_ EXCEPT ![state].current_mux = SDO_MUX(index, subindex)]
               ELSE node_state_
        o1 == printf(print_ts(out),
                     IF is_expediated
                     THEN "RSDO %d init-download-expediated index=%x,subindex=%d"
                     ELSE "RSDO %d init-download-segment index=%x,subindex=%d",
                     <<msg.id, index, subindex>>, "none", <<>>)
    IN  IF ~is_expediated /\ is_size_indicated /\ f.can_dlc = CAN_MAX_DLC
        THEN LET size == sdo_get_indicated_size(f)
             IN  Return(IF state # NULL
                        THEN [ns1 EXCEPT ![state].sdo_data = vector_clear(@)]
                        ELSE ns1,
                        printx(o1, f, ",size=%d", <<size>>, "none", <<>>))
        ELSE IF is_expediated
        THEN LET size == get_expediated_size(f)
                 ok == InFrame(SDO_EXPEDIATED_DATA_IDX, size)
             IN  \/ ~ok /\ Crash("size")
                 \/ Return(ns1,
                           printx(o1, f, ",size=%d,data=%s", <<size>>,
                                  IF ok THEN "hex" ELSE "garbage",
                                  FrameBytes(f, SDO_EXPEDIATED_DATA_IDX, size)))
        ELSE Return(ns1, o1)

\* the command byte counted as payload
segment_size_whole(f) == f.can_dlc

segment_size(f) == f.can_dlc - SDO_SEGMENT_IDX

dump_sdo_dl_seg_req(msg, f) ==
    LET state == get_node_state(msg.id)
        is_end == sdo_is_end_segment(f)
        size == segment_size(f)
        ok == InFrame(SDO_SEGMENT_IDX, size)
        data == FrameBytes(f, SDO_SEGMENT_IDX, size)
        ns1 == IF state # NULL /\ ok
               THEN [node_state_ EXCEPT ![state].sdo_data = vector_append(@, data)]
               ELSE node_state_
        o1 == printf(print_ts(out),
                     IF is_end
                     THEN "RSDO %d download-segment-end size=%d,data=%s"
                     ELSE "RSDO %d download-segment size=%d,data=%s",
                     <<msg.id, size>>, get_segment_data(ns1, state, ok), data)
        o2 == IF state # NULL /\ is_end
              THEN printf(o1, ",final-size=%d,final-data=%s",
                          <<Len(ns1[state].sdo_data)>>,
                          get_segment_data(ns1, state, TRUE), ns1[state].sdo_data)
              ELSE o1
        ns2 == IF state # NULL /\ is_end
               THEN [ns1 EXCEPT ![state].current_mux = 0]
               ELSE ns1
    IN  \/ ~ok /\ Crash("size")
        \/ Return(ns2, printx(o2, f, "", <<>>, "none", <<>>))

dump_sdo_ul_init_req(msg, f) ==
    Return(node_state_,
           printx(print_ts(out), f, "RSDO %d init-upload-segment index=%x,subindex=%d",
                  <<msg.id, sdo_get_index(f), sdo_get_subindex(f)>>, "none", <<>>))

dump_sdo_ul_seg_req(msg, f) ==
    Return(node_state_,
           printx(print_ts(out), f, "RSDO %d upload-segment", <<msg.id>>, "none", <<>>))

sdo_get_abort_code(f) == sdo_get_indicated_size(f)

\* an abort that also gives up the transfer of the node
dump_sdo_abort_resetting(type, msg, f) ==
    LET state == get_node_state(msg.id)
    IN  Return(IF state = NULL
               THEN node_state_
               ELSE [node_state_ EXCEPT ![state].current_mux = 0,
                                        ![state].sdo_data = vector_clear(@)],
               printx(print_ts(out), f, type \o "SDO %d abort index=%x,subindex=%d,reason",
                      <<msg.id, sdo_get_index(f), sdo_get_subindex(f),
                        sdo_get_abort_code(f)>>, "none", <<>>))

dump_sdo_abort(type, msg, f) ==
    Return(node_state_,
           printx(print_ts(out), f, type \o "SDO %d abort index=%x,subindex=%d,reason",
                  <<msg.id, sdo_get_index(f), sdo_get_subindex(f),
                    sdo_get_abort_code(f)>>, "none", <<>>))

dump_rsdo(msg, f) ==
    IF CO_DUMP_FILTER_SDO \notin options_
    THEN Return(node_state_, out)
    ELSE LET cs == sdo_get_cs(f)
         IN  CASE cs = 1 -> dump_sdo_dl_init_req(msg, f)
               [] cs = 0 -> dump_sdo_dl_seg_req(msg, f)
               [] cs = 2 -> dump_sdo_ul_init_req(msg, f)
               [] cs = 3 -> dump_sdo_ul_seg_req(msg, f)
               [] cs = 4 -> dump_sdo_abort("R", msg, f)
               [] OTHER -> Return(node_state_,
                                  printx(print_ts(out), f,
                                         "RSDO %d unknown-command-specifier",
                                         <<msg.id>>, "none", <<>>))

dump_sdo_ul_init_res(msg, f) ==
    LET state == get_node_state(msg.id)
        is_expediated == sdo_is_expediated(f)
        is_size_indicated == sdo_is_size_indicated(f)
        index == sdo_get_index(f)
        subindex == sdo_get_subindex(f)
        ns1 == IF state # NULL /\ ~is_expediated
               THEN [node_state_ EXCEPT ![state].current_mux = SDO_MUX(index, subindex)]
               ELSE node_state_
        o1 == printf(print_ts(out),
                     IF is_expediated
                     THEN "TSDO %d init-upload-expediated index=%x,subindex=%d"
                     ELSE "TSDO %d init-upload-segment index=%x,subindex=%d",
                     <<msg.id, index, subindex>>, "none", <<>>)
    IN  IF ~is_expediated /\ is_size_indicated /\ f.can_dlc = CAN_MAX_DLC
        THEN LET size == sdo_get_indicated_size(f)
             IN  Return(IF state # NULL
                        THEN [ns1 EXCEPT ![state].sdo_data = vector_clear(@)]
                        ELSE ns1,
                        printx(o1, f, ",size=%d", <<size>>, "none", <<>>))
        ELSE IF is_expediated
        THEN LET size == get_expediated_size(f)
                 ok == InFrame(SDO_EXPEDIATED_DATA_IDX, size)
                 payload == SubSeq(f.data, SDO_EXPEDIATED_DATA_IDX + 1, CAN_MAX_DLC)
                 is_devtype == index = 4096 /\ subindex = 0
                 ns2 == IF is_devtype /\ state # NULL
                        THEN [ns1 EXCEPT ![state].device_type =
                                             byteorder2(payload, 4, size)]
                        ELSE ns1
             IN  \/ is_devtype /\ state = NULL /\ Crash("null")
                 \/ ~(is_devtype /\ state = NULL) /\ ~ok /\ Crash("size")
                 \/ /\ ~(is_devtype /\ state = NULL)  \* the write went through
                    /\ Return(ns2,
                              printx(o1, f, ",size=%d,data=%s", <<size>>,
                                     IF ok THEN "hex" ELSE "garbage",
                                     FrameBytes(f, SDO_EXPEDIATED_DATA_IDX, size)))
        ELSE Return(ns1, o1)

\* the upload end segment clearing the multiplexer as the download one does
dump_sdo_ul_seg_res_clearing(msg, f) == dump_sdo_dl_seg_req(msg, f)

dump_sdo_ul_seg_res(msg, f) ==
    LET state == get_node_state(msg.id)
        is_end == sdo_is_end_segment(f)
        size == segment_size(f)
        ok == InFrame(SDO_SEGMENT_IDX, size)
        data == FrameBytes(f, SDO_SEGMENT_IDX, size)
        ns1 == IF state # NULL /\ ok
               THEN [node_state_ EXCEPT ![state].sdo_data = vector_append(@, data)]
               ELSE node_state_
        o1 == printf(print_ts(out),
                     IF is_end
                     THEN "TSDO %d upload-segment-end size=%d,data=%s"
                     ELSE "TSDO %d upload-segment size=%d,data=%s",
                     <<msg.id, size>>, get_segment_data(ns1, state, ok), data)
        o2 == IF state # NULL /\ is_end
              THEN printf(o1, ",final-size=%d,final-data=%s",
                          <<Len(ns1[state].sdo_data)>>,
                          get_segment_data(ns1, state, TRUE), ns1[state].sdo_data)
              ELSE o1
    IN  \/ ~ok /\ Crash("size")
        \/ Return(ns1, printx(o2, f, "", <<>>, "none", <<>>))

dump_sdo_dl_init_res(msg, f) ==
    Return(node_state_,
           printx(print_ts(out), f, "TSDO %d init-download-segment", <<msg.id>>,
                  "none", <<>>))

dump_sdo_dl_seg_res(msg, f) ==
    Return(node_state_,
           printx(print_ts(out), f,
                  IF sdo_is_end_segment(f) THEN "TSDO %d download-segment-end"
                                           ELSE "TSDO %d download-segment",
                  <<msg.id>>, "none", <<>>))

\* dump_tsdo without the check of the SDO filter bit
dump_tsdo_unfiltered(msg, f) ==
    LET cs == sdo_get_cs(f)
    IN  CASE cs = 3 -> dump_sdo_dl_init_res(msg, f)
          [] cs = 1 -> dump_sdo_dl_seg_res(msg, f)
          [] cs = 2 -> dump_sdo_ul_init_res(msg, f)
          [] cs = 0 -> dump_sdo_ul_seg_res(msg, f)
          [] cs = 4 -> dump_sdo_abort("T", msg, f)
          [] OTHER -> Return(node_state_,
                             printx(print_ts(out), f,
                                    "TSDO %d unknown-command-specifier",
                                    <<msg.id>>, "none", <<>>))

dump_tsdo(msg, f) ==
    IF CO_DUMP_FILTER_SDO \notin options_
    THEN Return(node_state_, out)
    ELSE LET cs == sdo_get_cs(f)
         IN  CASE cs = 3 -> dump_sdo_dl_init_res(msg, f)
               [] cs = 1 -> dump_sdo_dl_seg_res(msg, f)
               [] cs = 2 -> dump_sdo_ul_init_res(msg, f)
               [] cs = 0 -> dump_sdo_ul_seg_res(msg, f)
               [] cs = 4 -> dump_sdo_abort("T", msg, f)
               [] OTHER -> Return(node_state_,
                                  printx(print_ts(out), f,
                                         "TSDO %d unknown-command-specifier",
                                         <<msg.id>>, "none", <<>>))

(***************************************************************************)
(* multiplex: classify the frame and call the decoder of its service.      *)
(* A frame the classifier rejects makes multiplex return -1; abort() is    *)
(* reached only by an object the switch does not list.                     *)
(***************************************************************************)
multiplex(f) ==
    LET msg == canopen_get_object_type(f)
    IN  IF msg.rc # 0
        THEN Return(node_state_, out)
        ELSE CASE msg.object = "NMT" -> dump_nmt(f)
               [] msg.object = "SYNC" -> dump_sync(f)
               [] msg.object = "TIMESTAMP" -> dump_timestamp(f)
               [] msg.object = "EMCY" -> dump_emcy(msg, f)
               [] msg.object = "TPDO1" -> dump_pdo("T", 1, msg, f)
               [] msg.object = "TPDO2" -> dump_pdo("T", 2, msg, f)
               [] msg.object = "TPDO3" -> dump_pdo("T", 3, msg, f)
               [] msg.object = "TPDO4" -> dump_pdo("T", 4, msg, f)
               [] msg.object = "RPDO1" -> dump_pdo("R", 1, msg, f)
               [] msg.object = "RPDO2" -> dump_pdo("R", 2, msg, f)
               [] msg.object = "RPDO3" -> dump_pdo("R", 3, msg, f)
               [] msg.object = "RPDO4" -> dump_pdo("R", 4, msg, f)
               [] msg.object = "TSDO" -> dump_tsdo(msg, f)
               [] msg.object = "RSDO" -> dump_rsdo(msg, f)
               [] msg.object = "HEARTBEAT" -> dump_heartbeat(msg, f)
               [] OTHER -> Abort

(***************************************************************************)
(* History of the transfer in flight, kept beside the decoders: a decoded  *)
(* non-expedited initiate that declares its size in a full frame opens it  *)
(* with no bytes; a decoded segment frame of the node adds the payload     *)
(* bytes 1 .. can_dlc-1 of the frame; any other decoded SDO frame of the   *)
(* node closes it.                                                         *)
(***************************************************************************)
IsSdo(f) == canopen_get_object_type(f).object \in {"RSDO", "TSDO"}

IsInitiate(f) ==
    LET msg == canopen_get_object_type(f)
    IN  \/ msg.object = "RSDO" /\ sdo_get_cs(f) = 1
        \/ msg.object = "TSDO" /\ sdo_get_cs(f) = 2

IsSegment(f) == IsSdo(f) /\ sdo_get_cs(f) = 0

Payload(f) == [i \in 1..(IF f.can_dlc > 1 THEN f.can_dlc - 1 ELSE 0) |-> f.data[i + 1]]

NoXfer == [open |-> FALSE, size |-> 0, bytes |-> <<>>]

XferNext(f) ==
    LET state == get_node_state(FrameNodeId(f))
    IN  IF ~IsSdo(f) \/ state = NULL \/ CO_DUMP_FILTER_SDO \notin options_
        THEN xfer
        ELSE IF IsInitiate(f) /\ ~sdo_is_expediated(f) /\ sdo_is_size_indicated(f)
                /\ f.can_dlc = 8
        THEN [xfer EXCEPT ![state] = [open |-> TRUE,
                                      size |-> sdo_get_indicated_size(f),
                                      bytes |-> <<>>]]
        ELSE IF IsSegment(f)
        THEN [xfer EXCEPT ![state].bytes =
                              IF xfer[state].open THEN @ \o Payload(f) ELSE @]
        ELSE [xfer EXCEPT ![state] = NoXfer]

(***************************************************************************)
(* The program.                                                            *)
(***************************************************************************)
NodeState0 == [current_mux |-> 0, sdo_data |-> <<>>, device_type |-> 0]

\* The recorder: the frames a live run decoded (what a trace file of the
\* run holds), what each decoding wrote, and the outcome of the live run
\* kept for the replay.  It is off unless a specification starts it.
NoRun == [log |-> <<>>, ns |-> [i \in StateIdx |-> NodeState0], pc |-> "idle", req |-> {}]

HistOff == [phase |-> "off", tape |-> <<>>, rd |-> 0, log |-> <<>>, live |-> NoRun]

Recorded(h, f, o) ==
    CASE h.phase = "live" ->
            [h EXCEPT !.tape = Append(@, f), !.log = Append(@, [cf |-> f, out |-> o])]
      [] h.phase = "replay" ->
            [h EXCEPT !.log = Append(@, [cf |-> f, out |-> o])]
      [] OTHER -> h

Called(h) ==
    CASE h.phase = "armed" -> [h EXCEPT !.phase = "live"]
      [] h.phase = "rearmed" -> [h EXCEPT !.phase = "replay"]
      [] OTHER -> h

Init ==
    /\ pc = "idle"
    /\ fault = "none"
    /\ req = {}
    /\ options_ = {}
    /\ node_state_ = [i \in StateIdx |-> NodeState0]
    /\ cf = ZeroFrame
    /\ out = <<>>
    /\ xfer = [i \in StateIdx |-> NoXfer]
    /\ hist = HistOff

node_state_init(ns) == [i \in DOMAIN ns |-> [ns[i] EXCEPT !.sdo_data = vector_init]]

\* the requested bits taken as they are, no default when no filter is asked
resolve_filters_no_default(opts, options) == opts \cup options

resolve_filters(opts, options) ==
    LET o1 == opts \cup (options \ CO_DUMP_FILTER_MASK)
    IN  o1 \cup (IF options \cap CO_DUMP_FILTER_MASK # {}
                 THEN options \cap CO_DUMP_FILTER_MASK
                 ELSE CO_DUMP_FILTER_MASK)

\* co_dump up to the loop: the vectors are initialised, the options resolved
\* and the file or the socket opened.
CoDump(O) ==
    /\ pc = "idle"
    /\ \E options \in O :
          /\ req' = options
          /\ options_' = resolve_filters(options_, options)
    /\ node_state_' = node_state_init(node_state_)
    /\ xfer' = [i \in StateIdx |-> NoXfer]
    /\ pc' = "top"
    /\ hist' = Called(hist)
    /\ UNCHANGED <<fault, cf, out>>

\* co_dump when fopen or sock_open fails: it returns 1.
CoDumpOpenFails(O) ==
    /\ pc = "idle"
    /\ \E options \in O :
          /\ req' = options
          /\ options_' = resolve_filters(options_, options)
    /\ node_state_' = node_state_init(node_state_)
    /\ xfer' = [i \in StateIdx |-> NoXfer]
    /\ pc' = "idle"
    /\ UNCHANGED <<fault, cf, out, hist>>

\* The head of the loop: run_dumper clears the frame (dump_file's fread
\* overwrites it); out starts the iteration empty.
LoopTop ==
    /\ pc = "top"
    /\ cf' = ZeroFrame
    /\ out' = <<>>
    /\ pc' = "recv"
    /\ UNCHANGED <<fault, req, options_, node_state_, xfer, hist>>

\* A frame that would grow an accumulator beyond cap is not offered.
Offered(f, cap) ==
    LET state == get_node_state(FrameNodeId(f))
    IN  (IsSegment(f) /\ state # NULL)
            => Len(node_state_[state].sdo_data) + Len(Payload(f)) <= cap

\* sock_recv or fread delivers a frame.
Recv(F, cap) ==
    /\ pc = "recv"
    /\ \E f \in F :
          /\ Offered(f, cap)
          /\ cf' = f
    /\ pc' = "mux"
    /\ UNCHANGED <<fault, req, options_, node_state_, out, xfer, hist>>

\* sock_recv returns <= 0, or fread reads no whole record: the loop ends and
\* co_dump returns 0.
EndOfStream ==
    /\ pc = "recv"
    /\ pc' = "idle"
    /\ UNCHANGED <<fault, req, options_, node_state_, cf, out, xfer, hist>>

\* multiplex(&cf); its return value is not looked at.
Multiplex ==
    /\ pc = "mux"
    /\ multiplex(cf)
    /\ xfer' = IF pc' = "top" THEN XferNext(cf) ELSE xfer
    /\ hist' = Recorded(hist, cf, out')
    /\ UNCHANGED <<req, options_, cf>>

(***************************************************************************)
(* Inputs.  The frames and option sets the specifications draw from.       *)
(***************************************************************************)
MaxAcc == 2

MaxAccSdo == 8

\* bytes 1..7 of a frame: index 0x1000 sub 0 with a device type, index
\* 0x1008 sub 0 (a visible string) with "ABCD", index 0x6000 sub 1
TailDevType == <<0, 16, 0, 145, 1, 15, 0>>

TailName == <<8, 16, 0, 65, 66, 67, 68>>

TailOther == <<0, 96, 1, 1, 2, 3, 4>>

\* index 0x1008 sub 0 with the declared size 2
TailShort == <<8, 16, 0, 2, 0, 0, 0>>

\* command bytes: segment, segment with end flag; initiate without size,
\* with size, expedited without size, expedited with size and n = 0, 2
\* (download request for RSDO, the same plus 0x20 is the upload response
\* of TSDO); 0x60, abort, an unknown specifier
CmdSegment == {0, 1}

CmdInitSegmented == {32, 33, 64, 65}

CmdInitExpedited == {34, 35, 43, 66, 67, 75}

CmdOther == {96, 128, 160}

SdoFrames(ids, rtrs, dlcs, cmds, tails) ==
    {MkFrame(fc, id, rtr, dlc, <<cmd>> \o tail) :
        fc \in {11, 12}, id \in ids, rtr \in rtrs, dlc \in dlcs, cmd \in cmds,
        tail \in tails}

\* the frames of the other services: every function code, the command or
\* state byte first
OtherFrames ==
    {MkFrame(fc, id, rtr, dlc, <<b>> \o TailOther) :
        fc \in (0..15) \ {11, 12}, id \in NodeIds, rtr \in BOOLEAN,
        dlc \in {0, 8}, b \in {0, 1, 5}}

Frames ==
    OtherFrames
    \cup SdoFrames({0, 1}, BOOLEAN, {8}, CmdInitSegmented \cup CmdOther, {TailName})
    \cup SdoFrames({0, 1}, BOOLEAN, {3, 8}, {35, 67}, {TailDevType})
    \cup SdoFrames({0, 1}, {FALSE}, {0, 2}, CmdSegment, {TailName})

OptionChoices ==
    {{}, {CO_DUMP_FILTER_SDO}, {CO_DUMP_PDO_FILTER_SHIFT},
     {CO_DUMP_TIMESTAMP}, {CO_DUMP_FILE, CO_DUMP_FILTER_EMCY, CO_DUMP_FILTER_NMT}}

Next ==
    \/ CoDump(OptionChoices)
    \/ CoDumpOpenFails(OptionChoices)
    \/ LoopTop
    \/ Recv(Frames, MaxAcc)
    \/ EndOfStream
    \/ Multiplex

Spec == Init /\ [][Next]_vars

\* Segmented transfers in depth: the SDO frames of one node with state and
\* of node 0, segments of 0 to 7 payload bytes.
FramesSdo ==
    SdoFrames({0, 1}, {FALSE}, {4, 8}, CmdInitSegmented, {TailShort, TailDevType})
    \cup SdoFrames({0, 1}, {FALSE}, {8}, {35, 67, 128}, {TailName})
    \cup SdoFrames({0, 1}, {FALSE}, {0, 1, 2, 4, 8}, CmdSegment, {TailName})

OptionsSdo == {{}, {CO_DUMP_FILTER_SDO}}

NextSdo ==
    \/ CoDump(OptionsSdo)
    \/ CoDumpOpenFails(OptionsSdo)
    \/ LoopTop
    \/ Recv(FramesSdo, MaxAccSdo)
    \/ EndOfStream
    \/ Multiplex

SpecSdo == Init /\ [][NextSdo]_vars

\* Option resolution in depth: every option set over seven of the bits,
\* and a frame of each PDO class, of SDO and of NMT.
FramesOpt ==
    {MkFrame(fc, 1, rtr, 8, <<1>> \o TailOther) :
        fc \in {0} \cup (3..10), rtr \in BOOLEAN}
    \cup SdoFrames({1}, {FALSE}, {8}, {65}, {TailName})

OptionsOpt ==
    SUBSET {CO_DUMP_TCP, CO_DUMP_FILTER_NMT, CO_DUMP_PDO_FILTER_SHIFT,
            CO_DUMP_PDO_FILTER_SHIFT + 2, CO_DUMP_FILTER_SDO, CO_DUMP_TIMESTAMP,
            CO_DUMP_FILE}

NextOpt ==
    \/ CoDump(OptionsOpt)
    \/ CoDumpOpenFails(OptionsOpt)
    \/ LoopTop
    \/ Recv(FramesOpt, MaxAcc)
    \/ EndOfStream
    \/ Multiplex

SpecOpt == Init /\ [][NextOpt]_vars

\* Expedited initiates in depth: every data length 0..8, size indicated or
\* not, every n, both directions, nodes with and without state.
CmdExpeditedAll ==
    {cs * 32 + n * 4 + 2 + si : cs \in {1, 2}, n \in 0..3, si \in {0, 1}}

FramesExp ==
    SdoFrames({0, 1}, {FALSE}, 0..8, CmdExpeditedAll, {TailOther, TailDevType})

NextExp ==
    \/ CoDump(OptionsSdo)
    \/ CoDumpOpenFails(OptionsSdo)
    \/ LoopTop
    \/ Recv(FramesExp, MaxAcc)
    \/ EndOfStream
    \/ Multiplex

SpecExp == Init /\ [][NextExp]_vars

\* Two nodes with state: the transfers of nodes 1 and 127 interleaved.
FramesNodes ==
    SdoFrames({1, NodeIdMax}, {FALSE}, {8}, {33, 65}, {TailName})
    \cup SdoFrames({1, NodeIdMax}, {FALSE}, {2}, CmdSegment, {TailName})
    \cup SdoFrames({1, NodeIdMax}, {FALSE}, {8}, {67}, {TailDevType})

NextNodes ==
    \/ CoDump(OptionsSdo)
    \/ CoDumpOpenFails(OptionsSdo)
    \/ LoopTop
    \/ Recv(FramesNodes, MaxAcc)
    \/ EndOfStream
    \/ Multiplex

SpecNodes == Init /\ [][NextNodes]_vars

\* Heartbeat in depth: every state byte, frames with and without data.
FramesHb ==
    {MkFrame(14, id, rtr, dlc, <<b>> \o TailOther) :
        id \in NodeIds, rtr \in BOOLEAN, dlc \in {0, 1, 8}, b \in 0..255}

OptionsHb == {{}, {CO_DUMP_FILTER_HEARTBEAT}, {CO_DUMP_FILTER_NMT, CO_DUMP_TIMESTAMP}}

NextHb ==
    \/ CoDump(OptionsHb)
    \/ CoDumpOpenFails(OptionsHb)
    \/ LoopTop
    \/ Recv(FramesHb, MaxAcc)
    \/ EndOfStream
    \/ Multiplex

SpecHb == Init /\ [][NextHb]_vars

\* The two sources side by side: a live run over up to MaxTape frames is
\* recorded, the process is started afresh and the recorded file is replayed
\* under the same filter options.
MaxTape == 3

FramesSrc ==
    SdoFrames({1}, {FALSE}, {8}, {33, 65, 128}, {TailName})
    \cup SdoFrames({1}, {FALSE}, {0, 3}, CmdSegment, {TailName})
    \cup SdoFrames({0, 1}, {FALSE}, {8}, {67}, {TailDevType})
    \cup {MkFrame(fc, 1, FALSE, 8, <<5>> \o TailOther) : fc \in {1, 3, 13, 14}}

OptionsLive ==
    {{}, {CO_DUMP_TCP, CO_DUMP_FILTER_SDO, CO_DUMP_FILTER_EMCY},
     {CO_DUMP_TIMESTAMP, CO_DUMP_FILTER_SDO}}

\* the recorder is started in a process that has made no call yet
Arm ==
    /\ pc = "idle"
    /\ hist.phase = "off"
    /\ hist' = [hist EXCEPT !.phase = "armed"]
    /\ UNCHANGED <<pc, fault, req, options_, node_state_, cf, out, xfer>>

\* co_dump on the bus, and in the new process co_dump on the recorded file
\* with the filter options of the live call
CallSrc ==
    /\ hist.phase \in {"armed", "rearmed"}
    /\ CoDump(IF hist.phase = "armed"
              THEN OptionsLive
              ELSE {(hist.live.req \ {CO_DUMP_TCP}) \cup {CO_DUMP_FILE}})

\* run_dumper: sock_recv delivers a frame, or reports the end
RecvLive ==
    /\ hist.phase = "live"
    /\ Len(hist.tape) < MaxTape
    /\ Recv(FramesSrc, MaxAccSdo)

EndLive ==
    /\ hist.phase = "live"
    /\ EndOfStream

\* The process ends (co_dump has returned, or the process died) and a new
\* one starts: the statics have their initial values again.
Restart ==
    /\ hist.phase = "live"
    /\ pc \in {"idle", "crashed", "aborted"}
    /\ hist' = [hist EXCEPT !.phase = "rearmed", !.log = <<>>,
                            !.live = [log |-> hist.log, ns |-> node_state_,
                                      pc |-> pc, req |-> req]]
    /\ pc' = "idle"
    /\ fault' = "none"
    /\ req' = {}
    /\ options_' = {}
    /\ node_state_' = [i \in StateIdx |-> NodeState0]
    /\ cf' = ZeroFrame
    /\ out' = <<>>
    /\ xfer' = [i \in StateIdx |-> NoXfer]

\* dump_file: fread delivers the next whole record of the file
FileRead ==
    /\ pc = "recv"
    /\ hist.phase = "replay"
    /\ hist.rd < Len(hist.tape)
    /\ cf' = hist.tape[hist.rd + 1]
    /\ hist' = [hist EXCEPT !.rd = @ + 1]
    /\ pc' = "mux"
    /\ UNCHANGED <<fault, req, options_, node_state_, out, xfer>>

\* fread finds no whole record left
FileEnd ==
    /\ hist.phase = "replay"
    /\ hist.rd = Len(hist.tape)
    /\ EndOfStream

NextSrc ==
    \/ Arm
    \/ CallSrc
    \/ LoopTop
    \/ RecvLive
    \/ EndLive
    \/ Restart
    \/ FileRead
    \/ FileEnd
    \/ Multiplex

SpecSrc == Init /\ [][NextSrc]_vars

(***************************************************************************)
(* Properties.                                                             *)
(***************************************************************************)
FinalFmt == ",final-size=%d,final-data=%s"

FrameState(f) == get_node_state(FrameNodeId(f))

SdoOn == CO_DUMP_FILTER_SDO \in options_

\* The frame in cf has just been decoded and the decoder has returned.
Decoded == pc = "top" /\ cf # ZeroFrame

\* C1: segmented round trip.  When an end segment of a node with state is
\* decoded after an initiate that declared a size in a full frame and after
\* segment frames only, the final buffer written on that line is the
\* concatenation, in arrival order, of the payload bytes (byte 1 up to the
\* data length) of those segment frames, whatever the declared size, for
\* download (RSDO) and upload (TSDO) segments alike.
C1_SegmentedRoundTrip ==
    (/\ Decoded
     /\ SdoOn
     /\ IsSegment(cf)
     /\ sdo_is_end_segment(cf)
     /\ FrameState(cf) # NULL
     /\ xfer[FrameState(cf)].open)
    => \E k \in DOMAIN out :
          /\ out[k].fmt = FinalFmt
          /\ out[k].data = xfer[FrameState(cf)].bytes
          /\ out[k].args = <<Len(xfer[FrameState(cf)].bytes)>>

\* C1 witness: an upload end segment closes a transfer of several segments
\* whose bytes outnumber the declared size, and all of them are reported.
C1_Witness ==
    /\ Decoded
    /\ SdoOn
    /\ canopen_get_object_type(cf).object = "TSDO"
    /\ IsSegment(cf)
    /\ sdo_is_end_segment(cf)
    /\ FrameState(cf) # NULL
    /\ xfer[FrameState(cf)].open
    /\ xfer[FrameState(cf)].size > 0
    /\ Len(xfer[FrameState(cf)].bytes) > xfer[FrameState(cf)].size
    /\ Len(xfer[FrameState(cf)].bytes) > Len(Payload(cf))
    /\ Len(Payload(cf)) > 0
    /\ \E k \in DOMAIN out :
          out[k].fmt = FinalFmt /\ out[k].data = xfer[FrameState(cf)].bytes

\* C2: after a non-expedited download-initiate request or upload-initiate
\* response of a node with state is decoded, whatever its size-indicated
\* flag and data length, the accumulator of the node is empty.
C2_ClearedOnInitiate ==
    (/\ Decoded
     /\ SdoOn
     /\ IsInitiate(cf)
     /\ ~sdo_is_expediated(cf)
     /\ FrameState(cf) # NULL)
    => node_state_[FrameState(cf)].sdo_data = <<>>

\* C3: decoding a frame whose node id has no state entry never reads or
\* writes through the missing entry.
C3_NoAccessWithoutState ==
    FrameState(cf) = NULL => fault # "null"

\* C4: life cycle of the active multiplexer.  With the SDO class enabled, a
\* decoded non-expedited initiate of a node sets its multiplexer to the
\* frame's (index, subindex), a decoded download segment with the end flag
\* clears it, and nothing else changes it: not an expedited initiate, not an
\* upload end segment, no other frame, no other step.  The bytes of a
\* segment line are rendered by the type of the multiplexer the node had
\* when the segment arrived.
ClaimedMux(i, f, old) ==
    IF ~SdoOn \/ FrameState(f) # i
    THEN old
    ELSE IF IsInitiate(f) /\ ~sdo_is_expediated(f)
    THEN SDO_MUX(sdo_get_index(f), sdo_get_subindex(f))
    ELSE IF canopen_get_object_type(f).object = "RSDO" /\ IsSegment(f)
            /\ sdo_is_end_segment(f)
    THEN 0
    ELSE old

ClaimedEnc(mux) ==
    IF sdo_dict_type(mux) = "VISIBLE_STRING" THEN "str" ELSE "hex"

C4_MuxLifeCycle ==
    [][/\ \A i \in StateIdx :
            node_state_'[i].current_mux =
                IF pc = "mux" /\ pc' = "top"
                THEN ClaimedMux(i, cf, node_state_[i].current_mux)
                ELSE node_state_[i].current_mux
       /\ (pc = "mux" /\ pc' = "top" /\ SdoOn /\ IsSegment(cf)
              /\ FrameState(cf) # NULL)
          => \A k \in DOMAIN out' :
                out'[k].enc \in {"hex", "str"}
                => out'[k].enc =
                      ClaimedEnc(node_state_[FrameState(cf)].current_mux)]_vars

\* C4 witness: an upload end segment has been decoded, the multiplexer of
\* the earlier initiate is still set and the final buffer was rendered as
\* the string its type asks for.
C4_Witness ==
    /\ Decoded
    /\ SdoOn
    /\ canopen_get_object_type(cf).object = "TSDO"
    /\ IsSegment(cf)
    /\ sdo_is_end_segment(cf)
    /\ FrameState(cf) # NULL
    /\ node_state_[FrameState(cf)].current_mux = MuxDeviceName
    /\ \E k \in DOMAIN out : out[k].fmt = FinalFmt /\ out[k].enc = "str"

\* The filter bit of a service class; the transmit and the receive PDO of
\* one number share the bit of that number.
PdoNumber(object) ==
    CASE object \in {"TPDO1", "RPDO1"} -> 1
      [] object \in {"TPDO2", "RPDO2"} -> 2
      [] object \in {"TPDO3", "RPDO3"} -> 3
      [] object \in {"TPDO4", "RPDO4"} -> 4
      [] OTHER -> 0

ClassBit(object) ==
    CASE object = "NMT" -> CO_DUMP_FILTER_NMT
      [] object = "SYNC" -> CO_DUMP_FILTER_SYNC
      [] object = "TIMESTAMP" -> CO_DUMP_FILTER_TIMESTAMP
      [] object = "EMCY" -> CO_DUMP_FILTER_EMCY
      [] object \in {"RSDO", "TSDO"} -> CO_DUMP_FILTER_SDO
      [] object = "HEARTBEAT" -> CO_DUMP_FILTER_HEARTBEAT
      [] OTHER -> CO_DUMP_PDO_FILTER_SHIFT + PdoNumber(object) - 1

Classified(f) == canopen_get_object_type(f).rc = 0

\* C5: decoding a frame whose class is filtered out writes nothing and
\* changes no state: no accumulator, multiplexer or device type of any node.
C5_FilteredFrameIsSkipped ==
    [][(/\ pc = "mux"
        /\ Classified(cf)
        /\ ClassBit(canopen_get_object_type(cf).object) \notin options_)
       => /\ pc' = "top"
          /\ out' = <<>>
          /\ node_state_' = node_state_
          /\ fault' = fault]_vars

\* C5 witness: with the SDO class filtered out, a size-declaring initiate of
\* a node with state has been decoded: nothing was written and the node has
\* no multiplexer.
C5_Witness ==
    /\ Decoded
    /\ ~SdoOn
    /\ IsInitiate(cf)
    /\ ~sdo_is_expediated(cf)
    /\ sdo_is_size_indicated(cf)
    /\ FrameState(cf) # NULL
    /\ out = <<>>
    /\ node_state_[FrameState(cf)].current_mux = 0

PdoBits == {CO_DUMP_PDO_FILTER_SHIFT + n - 1 : n \in 1..4}

DecodedObject == canopen_get_object_type(cf).object

AllClassBits ==
    {CO_DUMP_FILTER_NMT, CO_DUMP_FILTER_SYNC, CO_DUMP_FILTER_TIMESTAMP,
     CO_DUMP_FILTER_EMCY, CO_DUMP_FILTER_SDO, CO_DUMP_FILTER_HEARTBEAT} \cup PdoBits

\* C7: filter default resolution.  The first co_dump call of a process
\* (options_ still 0) with options r enables every class when r holds no
\* filter bit and exactly the classes of r otherwise, and takes the other
\* bits of r (timestamp, source mode) as they are.
C7_FilterDefaults ==
    [][(pc = "idle" /\ options_ = {})
       => /\ (req' \cap AllClassBits = {}
                 => options_' \cap AllClassBits = AllClassBits)
          /\ (req' \cap AllClassBits # {}
                 => options_' \cap AllClassBits = req' \cap AllClassBits)
          /\ options_' \ AllClassBits = req' \ AllClassBits]_vars

\* C7 witness: a call that asked for timestamps and no filter runs with
\* every class enabled and timestamps on.
C7_Witness ==
    /\ pc = "top"
    /\ req = {CO_DUMP_TIMESTAMP}
    /\ options_ = AllClassBits \cup {CO_DUMP_TIMESTAMP}

\* C8: a frame rendered for an enabled class writes exactly one line: the
\* last piece, and only it, ends the line, and it carries the
\* remote-request marker exactly when the frame has the remote-request flag.
C8_OneTerminatedLine ==
    (Decoded /\ out # <<>>)
    => /\ out[Len(out)].nl
       /\ out[Len(out)].rtr = IsRtr(cf)
       /\ \A k \in 1..(Len(out) - 1) : ~out[k].nl /\ ~out[k].rtr

\* The bytes of a frame after the expedited data offset.
Available(f) ==
    IF f.can_dlc > SDO_EXPEDIATED_DATA_IDX
    THEN f.can_dlc - SDO_EXPEDIATED_DATA_IDX
    ELSE 0

\* C9: expedited value length.  The length written for a decoded expedited
\* initiate is the data length minus 4 when the size is not indicated and
\* the declared size 4 - n clamped to the data length minus 4 when it is;
\* it is a length (it did not wrap) and it never exceeds the bytes the
\* frame holds after the offset.
C9_ExpeditedLength ==
    (/\ Decoded
     /\ SdoOn
     /\ IsInitiate(cf)
     /\ sdo_is_expediated(cf)
     /\ out # <<>>)
    => LET size == out[Len(out)].args[1]
           rest == cf.can_dlc - 4
           declared == 4 - ((cf.data[1] \div 4) % 4)
       IN  /\ size = IF sdo_is_size_indicated(cf) /\ declared < rest
                     THEN declared
                     ELSE rest
           /\ size >= 0
           /\ size <= Available(cf)

\* C10: a frame the classifier cannot map to a service is never silently
\* dropped: the process ends in abort(), or, if the loop goes on to the next
\* frame, something was written about the frame.
C10_UnclassifiedIsReported ==
    (pc = "top" /\ ~Classified(cf)) => out # <<>>

\* The replay has ended: co_dump has returned or the process has died.
ReplayEnded ==
    /\ hist.phase = "replay"
    /\ pc \in {"idle", "crashed", "aborted"}

\* C11: source equivalence.  For the same frames and the same filter
\* options, timestamps off, the replay of the file writes what the live run
\* wrote, frame by frame, ends the way the live run ended and leaves the
\* same node-state table.
C11_SourceEquivalence ==
    (ReplayEnded /\ CO_DUMP_TIMESTAMP \notin req)
    => /\ hist.log = hist.live.log
       /\ node_state_ = hist.live.ns
       /\ pc = hist.live.pc

IsAbort(f) == IsSdo(f) /\ sdo_get_cs(f) = 4

\* C12: decoding an SDO abort frame, of either direction, changes no node's
\* accumulator, active multiplexer or cached device type, and the decoder
\* returns to the loop.
C12_AbortKeepsState ==
    [][(pc = "mux" /\ IsAbort(cf)) => (node_state_' = node_state_ /\ pc' = "top")]_vars

\* C12 witness: an abort frame of a node has been decoded and written while
\* a transfer of that node was partway: its multiplexer is set and its
\* accumulator holds bytes.
C12_Witness ==
    /\ Decoded
    /\ SdoOn
    /\ IsAbort(cf)
    /\ out # <<>>
    /\ FrameState(cf) # NULL
    /\ node_state_[FrameState(cf)].current_mux # 0
    /\ node_state_[FrameState(cf)].sdo_data # <<>>

IsDeviceTypeResponse(f) ==
    /\ canopen_get_object_type(f).object = "TSDO"
    /\ sdo_get_cs(f) = 2
    /\ sdo_is_expediated(f)
    /\ sdo_get_index(f) = 4096
    /\ sdo_get_subindex(f) = 0

\* The value an expedited frame carries: the bytes from offset 4 up to its
\* data length, at most the declared size, least significant first.
Carried(f) ==
    LET declared == 4 - ((f.data[1] \div 4) % 4)
        n == IF sdo_is_size_indicated(f) /\ declared < Available(f)
             THEN declared
             ELSE Available(f)
    IN  LittleEndian(SubSeq(f.data, 5, 4 + n))

IsEmcyLine(o) == o # <<>> /\ o[Len(o)].fmt = "EMCY %d code,register,dlc,text"

\* The step of C13: the cached device type of every node changes
\* only when an expedited upload-initiate response of that node for index
\* 0x1000 subindex 0 is decoded, and then to the value the frame carries;
\* the text of an EMCY frame of node n is resolved with the low 16 bits of
\* the cached device type of node n.
C13_DeviceTypeStep ==
    /\ \A i \in StateIdx :
          node_state_'[i].device_type =
              IF /\ pc = "mux" /\ pc' = "top" /\ SdoOn
                 /\ IsDeviceTypeResponse(cf) /\ FrameState(cf) = i
              THEN Carried(cf)
              ELSE node_state_[i].device_type
    /\ (pc = "mux" /\ IsEmcyLine(out'))
          => out'[Len(out')].args[5]
                = node_state_[FrameState(cf)].device_type % 65536

\* C13: the device type used for EMCY text.  Every cached device type is 0
\* at the start and every step keeps to C13_DeviceTypeStep.
C13_DeviceTypeForEmcy ==
    /\ \A i \in StateIdx : node_state_[i].device_type = 0
    /\ [][C13_DeviceTypeStep]_vars

\* C14: cross-node isolation.  Decoding a frame addressed to node n leaves
\* the accumulator, the active multiplexer and the cached device type of
\* every other node as they were.
C14_CrossNodeIsolation ==
    [][pc = "mux"
         => \A i \in StateIdx :
               i # FrameNodeId(cf) - 1 => node_state_'[i] = node_state_[i]]_vars

\* C14 witness: a segment of node 1 has been decoded into its accumulator
\* while node 127 had a transfer of its own partway and a device type cached.
C14_Witness ==
    /\ Decoded
    /\ SdoOn
    /\ IsSegment(cf)
    /\ FrameNodeId(cf) = 1
    /\ node_state_[0].sdo_data # <<>>
    /\ node_state_[NodeIdMax - 1].sdo_data # <<>>
    /\ node_state_[NodeIdMax - 1].current_mux # 0
    /\ node_state_[NodeIdMax - 1].device_type # 0

\* C15: the decode loop stops only when the source reports the end of the
\* stream: the process never dies inside the loop, and when the replay of a
\* file has returned, every record of the file was decoded once, in file
\* order.
C15_LoopEndsAtEndOfStream ==
    /\ pc \notin {"crashed", "aborted"}
    /\ (hist.phase = "replay" /\ pc = "idle")
          => [i \in DOMAIN hist.log |-> hist.log[i].cf] = hist.tape

IsHeartbeat(f) == canopen_get_object_type(f).object = "HEARTBEAT"

\* what the state byte b is to be rendered as: the line and the state name
HeartbeatText(b) ==
    LET v == b % 128
    IN  CASE b = 0 -> <<"HEARTBEAT %d bootup", "none">>
          [] b # 0 /\ v = 1 -> <<"HEARTBEAT %d poll", "none">>
          [] b # 0 /\ v = 4 -> <<"HEARTBEAT %d state=%s", "stopped">>
          [] b # 0 /\ v = 5 -> <<"HEARTBEAT %d state=%s", "operational">>
          [] b # 0 /\ v = 127 -> <<"HEARTBEAT %d state=%s", "pre-operational">>
          [] OTHER -> <<"HEARTBEAT %d state=%s", "UNKNOWN">>

\* C16: heartbeat rendering is a total function of the state byte.  No
\* heartbeat frame makes the process die, and with the class enabled the
\* line of a decoded heartbeat frame is "bootup" for byte 0, "poll" for
\* state value 1, the name of the stopped, operational and pre-operational
\* states, and "UNKNOWN" for every other value.
C16_HeartbeatRendering ==
    IsHeartbeat(cf)
    => /\ pc \notin {"crashed", "aborted"}
       /\ (Decoded /\ CO_DUMP_FILTER_HEARTBEAT \in options_)
             => /\ out # <<>>
                /\ out[Len(out)].fmt = HeartbeatText(cf.data[1])[1]
                /\ out[Len(out)].enc = HeartbeatText(cf.data[1])[2]
                /\ out[Len(out)].args = <<FrameNodeId(cf)>>

\* C16 witness: a heartbeat frame with the toggle bit set and an unnamed
\* state value has been decoded and written as "UNKNOWN".
C16_Witness ==
    /\ Decoded
    /\ IsHeartbeat(cf)
    /\ cf.data[1] = 128 + 2
    /\ out # <<>>
    /\ out[Len(out)].enc = "UNKNOWN"

SegmentFmts ==
    {"RSDO %d download-segment-end size=%d,data=%s",
     "RSDO %d download-segment size=%d,data=%s",
     "TSDO %d upload-segment-end size=%d,data=%s",
     "TSDO %d upload-segment size=%d,data=%s"}

ExpeditedFmt == ",size=%d,data=%s"

\* C17: the number of payload bytes read from an SDO frame never wraps.  No
\* decoder dies of a wrapped size, the size of a decoded segment frame is in
\* 0..7 and the size of a decoded expedited initiate is in 0..4, whatever
\* the data length of the frame.
C17_PayloadSizeInRange ==
    /\ fault # "size"
    /\ Decoded
          => \A k \in DOMAIN out :
                /\ out[k].fmt \in SegmentFmts => out[k].args[2] \in 0..7
                /\ out[k].fmt = ExpeditedFmt => out[k].args[1] \in 0..4

\* C18: while a co_dump call runs, the enabled classes are those resolved
\* from the options of that call alone: every class when it asked for no
\* filter, the classes it asked for otherwise, whatever earlier calls of the
\* process asked for.
C18_ClassesOfThisCall ==
    pc \in {"top", "recv", "mux"}
    => options_ \cap AllClassBits =
          IF req \cap AllClassBits = {} THEN AllClassBits ELSE req \cap AllClassBits

\* The payload bytes, in arrival order, of the segment frames of one
\* direction (object) and one node among the frames decoded so far.
RECURSIVE SegBytes(_, _, _)
SegBytes(log, object, n) ==
    IF log = <<>>
    THEN <<>>
    ELSE LET f == log[Len(log)].cf
             rest == SegBytes(SubSeq(log, 1, Len(log) - 1), object, n)
         IN  IF /\ IsSegment(f)
                /\ canopen_get_object_type(f).object = object
                /\ FrameNodeId(f) = n
             THEN rest \o Payload(f)
             ELSE rest

IsSuffix(s, t) ==
    /\ Len(s) <= Len(t)
    /\ SubSeq(t, Len(t) - Len(s) + 1, Len(t)) = s

\* C19: direction isolation within one node.  The final buffer written on
\* an end segment holds only payload bytes of segment frames of the same
\* direction and node: it is the tail of the bytes those frames carried, in
\* the order they came.
C19_DirectionIsolation ==
    (/\ Decoded
     /\ hist.phase \in {"live", "replay"}
     /\ IsSegment(cf)
     /\ sdo_is_end_segment(cf))
    => \A k \in DOMAIN out :
          out[k].fmt = FinalFmt
             => IsSuffix(out[k].data,
                         SegBytes(hist.log, canopen_get_object_type(cf).object,
                                  FrameNodeId(cf)))

====
